---- MODULE Spec2Model ----
\* MindGuard backend and dashboard: the assessment routes (validation, remote
\* prediction with local fallback, persistence, history), the Submission schema
\* and the dashboard's trend derivation.
\*
\* Units.  The risk score of generateFallbackPrediction is a sum of multiples of
\* 0.5, so it is held in half-points (Points(30) = 60 half-points = 30.0) and the
\* arithmetic stays exact in the integers, as it is in IEEE doubles for these
\* values.  Confidences are held in hundredths (85 = 0.85).
EXTENDS Integers, Sequences, FiniteSets, TLC

VARIABLES
    seed,        \* scoring pipeline: the request body the inputs are derived from
    body,        \* scoring pipeline: req.body of the request under assessment
    stage,       \* scoring pipeline: "received" | "assessed"
    errors,      \* scoring pipeline: validationResult(req).array()
    riskScore,   \* scoring pipeline: local riskScore of generateFallbackPrediction
    fallback,    \* scoring pipeline: value returned by generateFallbackPrediction
    reqs,            \* server: the submit requests, by request number
    submissions,     \* server: the Submission collection, in insertion order
    assessmentCount, \* server: User.assessmentCount, by user
    clock,           \* server: the wall clock (Date.now), in milliseconds
    hist,            \* server: the history request under observation
    currentAssessment,  \* dashboard: useState<RiskAssessment | null>
    assessmentHistory,  \* dashboard: useState<Submission[]>
    isLoading,          \* dashboard: useState(false)
    trend,              \* dashboard: getRiskTrend() of the last render
    serverHistory,      \* dashboard: the user's Submissions on the server, newest first
    submit,             \* dashboard: the handleAssessmentSubmit call in progress
    loads               \* dashboard: the loadAssessmentHistory calls, by number

engineVars == <<seed, body, stage, errors, riskScore, fallback>>
serverVars == <<reqs, submissions, assessmentCount, clock>>
historyVars == <<hist>>
dashVars == <<currentAssessment, assessmentHistory, isLoading, trend,
              serverHistory, submit, loads>>

vars == <<engineVars, serverVars, historyVars, dashVars>>

-----------------------------------------------------------------------------
\* Bounds of the model.

\* Number of fields in which an explored request body differs from its seed.
MaxEdits == 1

\* Number of submit requests a run of the server receives.
MaxRequests == 2

\* Number of times the millisecond clock advances while the store fills.
MaxClock == 1

\* Number of Submissions in the store of the history runs.
MaxStored == 3

\* Largest page and limit a history request asks for.
MaxPage == 3
MaxLimit == 2

\* Number of Submissions the user has on the server when the dashboard mounts.
MaxPrior == 2

\* Number of assessments the user submits from the dashboard.
MaxSubmits == 1

-----------------------------------------------------------------------------
\* Factor vector and validation rules (routes/assessment.js).

\* One entry per validation chain, in the order the chains are declared.
assessmentValidation ==
    << [field |-> "sleepHours",       min |-> 0, max |-> 12, message |-> "Sleep hours must be between 0 and 12"],
       [field |-> "anxietyLevel",     min |-> 1, max |-> 10, message |-> "Anxiety level must be between 1 and 10"],
       [field |-> "stressFrequency",  min |-> 1, max |-> 10, message |-> "Stress frequency must be between 1 and 10"],
       [field |-> "financialStress",  min |-> 1, max |-> 10, message |-> "Financial stress must be between 1 and 10"],
       [field |-> "socialSupport",    min |-> 1, max |-> 10, message |-> "Social support must be between 1 and 10"],
       [field |-> "workLifeBalance",  min |-> 1, max |-> 10, message |-> "Work-life balance must be between 1 and 10"],
       [field |-> "physicalActivity", min |-> 1, max |-> 10, message |-> "Physical activity must be between 1 and 10"],
       [field |-> "substanceUse",     min |-> 1, max |-> 10, message |-> "Substance use must be between 1 and 10"],
       [field |-> "moodChanges",      min |-> 1, max |-> 10, message |-> "Mood changes must be between 1 and 10"],
       [field |-> "suicidalThoughts", min |-> 1, max |-> 10, message |-> "Suicidal thoughts must be between 1 and 10"] >>

FieldNames == {assessmentValidation[i].field : i \in 1..Len(assessmentValidation)}

\* A request body maps the fields it carries to integers; a missing field is a
\* field outside its domain.
Has(b, f) == f \in DOMAIN b

\* body(field).isInt({min, max}): the field is present and min <= value <= max.
isInt(b, chain) ==
    /\ Has(b, chain.field)
    /\ b[chain.field] >= chain.min
    /\ b[chain.field] <= chain.max

\* Mutant: validation stops at the first failing chain.
validationResultFirstOnly(b) ==
    LET failed == SelectSeq(assessmentValidation, LAMBDA chain : ~isInt(b, chain))
        first == IF failed = << >> THEN << >> ELSE << failed[1] >>
    IN  [i \in 1..Len(first) |-> [path |-> first[i].field, msg |-> first[i].message]]

\* validationResult(req).array(): one error per failing chain, every chain is
\* run, the errors come in chain order.
validationResult(b) ==
    LET failed == SelectSeq(assessmentValidation, LAMBDA chain : ~isInt(b, chain))
    IN  [i \in 1..Len(failed) |-> [path |-> failed[i].field, msg |-> failed[i].message]]

-----------------------------------------------------------------------------
\* Deterministic scoring engine (generateFallbackPrediction).

Points(n) == 2 * n

LowRecommendations ==
    << "Continue maintaining healthy habits",
       "Regular exercise and good sleep schedule",
       "Stay connected with friends and family",
       "Practice stress management techniques" >>

MediumRecommendations ==
    << "Consider speaking with a mental health professional",
       "Focus on improving sleep quality and duration",
       "Increase physical activity and social connections",
       "Practice mindfulness and stress reduction techniques",
       "Limit alcohol and substance use" >>

HighRecommendations ==
    << "Strongly recommend seeking professional mental health support",
       "Contact a crisis helpline if experiencing suicidal thoughts",
       "Reach out to trusted friends, family, or support groups",
       "Consider medication evaluation with a psychiatrist",
       "Develop a safety plan with a mental health professional" >>

\* if (sleepHours < 6) += 15; else if (sleepHours < 7) += 8; else if (sleepHours > 9) += 5
SleepScore(sleepHours) ==
    IF sleepHours < 6 THEN Points(15)
    ELSE IF sleepHours < 7 THEN Points(8)
    ELSE IF sleepHours > 9 THEN Points(5)
    ELSE 0

\* Mutant: the substance-use weight is 2 instead of 3.
RiskScoreWeightSlip(formData) ==
    SleepScore(formData.sleepHours)
    + (formData.anxietyLevel - 1) * Points(2)
    + (formData.stressFrequency - 1) * Points(2)
    + (formData.financialStress - 1) * 3
    + (10 - formData.socialSupport) * Points(2)
    + (10 - formData.workLifeBalance) * 3
    + (10 - formData.physicalActivity) * Points(1)
    + (formData.substanceUse - 1) * Points(2)
    + (formData.moodChanges - 1) * Points(2)
    + (formData.suicidalThoughts - 1) * Points(5)

\* Mutant: social support is scored like a risk factor, (value - 1) * 2.
RiskScoreSupportInverted(formData) ==
    SleepScore(formData.sleepHours)
    + (formData.anxietyLevel - 1) * Points(2)
    + (formData.stressFrequency - 1) * Points(2)
    + (formData.financialStress - 1) * 3
    + (formData.socialSupport - 1) * Points(2)
    + (10 - formData.workLifeBalance) * 3
    + (10 - formData.physicalActivity) * Points(1)
    + (formData.substanceUse - 1) * Points(3)
    + (formData.moodChanges - 1) * Points(2)
    + (formData.suicidalThoughts - 1) * Points(5)

\* Mutant: the score is capped at 100, as the comment "(0-100)" reads.
RiskScoreCapped(formData) ==
    LET sum == SleepScore(formData.sleepHours)
               + (formData.anxietyLevel - 1) * Points(2)
               + (formData.stressFrequency - 1) * Points(2)
               + (formData.financialStress - 1) * 3
               + (10 - formData.socialSupport) * Points(2)
               + (10 - formData.workLifeBalance) * 3
               + (10 - formData.physicalActivity) * Points(1)
               + (formData.substanceUse - 1) * Points(3)
               + (formData.moodChanges - 1) * Points(2)
               + (formData.suicidalThoughts - 1) * Points(5)
    IN  IF sum > Points(100) THEN Points(100) ELSE sum

\* The accumulation of riskScore, statement by statement; a weight of 1.5 is
\* 3 half-points.
RiskScore(formData) ==
    LET s0 == 0
        s1 == s0 + SleepScore(formData.sleepHours)
        s2 == s1 + (formData.anxietyLevel - 1) * Points(2)
        s3 == s2 + (formData.stressFrequency - 1) * Points(2)
        s4 == s3 + (formData.financialStress - 1) * 3
        s5 == s4 + (10 - formData.socialSupport) * Points(2)
        s6 == s5 + (10 - formData.workLifeBalance) * 3
        s7 == s6 + (10 - formData.physicalActivity) * Points(1)
        s8 == s7 + (formData.substanceUse - 1) * Points(3)
        s9 == s8 + (formData.moodChanges - 1) * Points(2)
    IN  s9 + (formData.suicidalThoughts - 1) * Points(5)

\* Mutant: the thresholds are exclusive (< instead of <=).
RiskLevelExclusive(score) ==
    IF score < Points(30)
    THEN [prediction |-> "Low Risk", confidence |-> 85,
          recommendations |-> LowRecommendations]
    ELSE IF score < Points(60)
    THEN [prediction |-> "Medium Risk", confidence |-> 78,
          recommendations |-> MediumRecommendations]
    ELSE [prediction |-> "High Risk", confidence |-> 82,
          recommendations |-> HighRecommendations]

\* Mutant: the High Risk confidence grows with the score's distance from the
\* threshold.
RiskLevelScoredConfidence(score) ==
    IF score <= Points(30)
    THEN [prediction |-> "Low Risk", confidence |-> 85,
          recommendations |-> LowRecommendations]
    ELSE IF score <= Points(60)
    THEN [prediction |-> "Medium Risk", confidence |-> 78,
          recommendations |-> MediumRecommendations]
    ELSE [prediction |-> "High Risk",
          confidence |-> IF score > Points(90) THEN 95 ELSE 82,
          recommendations |-> HighRecommendations]

\* Mutant: the Medium band starts at 31, as the README's "Score 31-60" reads.
RiskLevelFrom31(score) ==
    IF score < Points(31)
    THEN [prediction |-> "Low Risk", confidence |-> 85,
          recommendations |-> LowRecommendations]
    ELSE IF score <= Points(60)
    THEN [prediction |-> "Medium Risk", confidence |-> 78,
          recommendations |-> MediumRecommendations]
    ELSE [prediction |-> "High Risk", confidence |-> 82,
          recommendations |-> HighRecommendations]

\* The classification of a risk score, with the bucket's confidence and
\* recommendations.
RiskLevel(score) ==
    IF score <= Points(30)
    THEN [prediction |-> "Low Risk", confidence |-> 85,
          recommendations |-> LowRecommendations]
    ELSE IF score <= Points(60)
    THEN [prediction |-> "Medium Risk", confidence |-> 78,
          recommendations |-> MediumRecommendations]
    ELSE [prediction |-> "High Risk", confidence |-> 82,
          recommendations |-> HighRecommendations]

generateFallbackPrediction(formData, now) ==
    LET level == RiskLevel(RiskScore(formData))
    IN  [prediction |-> level.prediction,
         confidence |-> level.confidence,
         recommendations |-> level.recommendations,
         timestamp |-> now]

-----------------------------------------------------------------------------
\* Scoring pipeline: one request body at a time goes through validation and,
\* when valid, through the scoring engine (the submit handler with the predictor
\* unavailable, up to the value assigned to `prediction`).

NoPrediction == [none |-> TRUE]
NoScore == 0 - 1

Vector(sl, an, st, fi, so, wo, ph, su, mo, sui) ==
    [sleepHours |-> sl, anxietyLevel |-> an, stressFrequency |-> st,
     financialStress |-> fi, socialSupport |-> so, workLifeBalance |-> wo,
     physicalActivity |-> ph, substanceUse |-> su, moodChanges |-> mo,
     suicidalThoughts |-> sui]

ScenarioVector == Vector(5, 8, 7, 6, 3, 4, 3, 2, 6, 1)  \* 91.5
Score30Vector  == Vector(8, 6, 6, 1, 10, 10, 10, 1, 6, 1)  \* 30.0
Score30hVector == Vector(8, 6, 6, 2, 10, 10, 9, 1, 5, 1)   \* 30.5
Score60Vector  == Vector(8, 6, 6, 1, 10, 10, 10, 6, 6, 4)  \* 60.0
Score60hVector == Vector(8, 6, 6, 2, 10, 10, 9, 6, 5, 4)   \* 60.5
MinRiskVector  == Vector(8, 1, 1, 1, 10, 10, 10, 1, 1, 1)
MaxRiskVector  == Vector(5, 10, 10, 10, 1, 1, 1, 10, 10, 10)
EmptyBody      == [f \in {} |-> 0]

SeedBodies ==
    { ScenarioVector, Score30Vector, Score30hVector, Score60Vector,
      Score60hVector, MinRiskVector, MaxRiskVector, EmptyBody }

\* The values a client may send for a field: its range and one step outside it.
RawValues(f) ==
    LET chain == CHOOSE c \in {assessmentValidation[i] : i \in 1..Len(assessmentValidation)} :
                     c.field = f
    IN  (chain.min - 1)..(chain.max + 1)

Carries(b, f, v) == Has(b, f) /\ b[f] = v

Differs(b, s, f) ==
    \/ Has(b, f) # Has(s, f)
    \/ Has(b, f) /\ Has(s, f) /\ b[f] # s[f]

Distance(b, s) == Cardinality({f \in FieldNames : Differs(b, s, f)})

SetField(b, f, v) == [g \in DOMAIN b \cup {f} |-> IF g = f THEN v ELSE b[g]]
OmitField(b, f) == [g \in DOMAIN b \ {f} |-> b[g]]

\* The server's state before any request.
Users == {"u1", "u2"}
Requests == 1..MaxRequests

NoResponse == [status |-> 0]

IdleRequest ==
    [pc |-> "idle", userId |-> "", formData |-> EmptyBody, mlCalls |-> 0,
     engineCalls |-> 0, mlOutcome |-> "none", mlData |-> NoPrediction,
     prediction |-> NoPrediction,
     savedId |-> 0, counted |-> FALSE, fault |-> "none", response |-> NoResponse]

IdleHistory ==
    [pc |-> "idle", userId |-> "", query |-> EmptyBody, page |-> 0, limit |-> 0, skip |-> 0,
     data |-> << >>, found |-> 0, response |-> NoResponse]

\* The dashboard before it is mounted.
Null == "null"
Loads == 0..MaxSubmits
IdleSubmit == [pc |-> "idle", response |-> NoResponse]
UnsentLoad == [pc |-> "unsent", response |-> NoResponse]

DashboardUnmounted ==
    /\ currentAssessment = NoPrediction
    /\ assessmentHistory = << >>
    /\ isLoading = FALSE
    /\ trend = Null
    /\ serverHistory = << >>
    /\ submit = IdleSubmit
    /\ loads = [k \in Loads |-> UnsentLoad]

ServerIdle ==
    /\ hist = IdleHistory
    /\ reqs = [r \in Requests |-> IdleRequest]
    /\ submissions = << >>
    /\ assessmentCount = [u \in Users |-> 0]
    /\ clock = 0

InitEngine ==
    /\ ServerIdle
    /\ DashboardUnmounted
    /\ seed \in SeedBodies
    /\ body = seed
    /\ stage = "received"
    /\ errors = << >>
    /\ riskScore = NoScore
    /\ fallback = NoPrediction

\* Lines 30-37 and 63-67 of the submit handler: validation, then the engine.
Assess ==
    /\ stage = "received"
    /\ stage' = "assessed"
    /\ errors' = validationResult(body)
    /\ IF errors' = << >>
       THEN /\ riskScore' = RiskScore(body)
            /\ fallback' = generateFallbackPrediction(body, 0)
       ELSE /\ riskScore' = NoScore
            /\ fallback' = NoPrediction
    /\ UNCHANGED <<seed, body>>
    /\ UNCHANGED <<serverVars, historyVars, dashVars>>

Receive(b) ==
    /\ stage = "assessed"
    /\ Distance(b, seed) <= MaxEdits
    /\ body' = b
    /\ stage' = "received"
    /\ errors' = << >>
    /\ riskScore' = NoScore
    /\ fallback' = NoPrediction
    /\ UNCHANGED seed
    /\ UNCHANGED <<serverVars, historyVars, dashVars>>

\* The next request repeats the last one with one field set to another value.
ResubmitWith(f, v) ==
    /\ ~Carries(body, f, v)
    /\ Receive(SetField(body, f, v))

\* The next request repeats the last one with one field left out.
ResubmitWithout(f) ==
    /\ Has(body, f)
    /\ Receive(OmitField(body, f))

NextEngine ==
    \/ Assess
    \/ \E f \in FieldNames : \E v \in RawValues(f) : ResubmitWith(f, v)
    \/ \E f \in FieldNames : ResubmitWithout(f)

SpecEngine == InitEngine /\ [][NextEngine]_vars

-----------------------------------------------------------------------------
\* The submit handler, router.post('/submit'), one action per step between two
\* awaits.  Requests are authenticated (the auth middleware has set req.user).

\* Request bodies the clients send to the server.
InvalidBody == SetField(OmitField(ScenarioVector, "moodChanges"), "sleepHours", 13)
SubmitBodies == {ScenarioVector, InvalidBody}

\* What the remote predictor answers with status 2xx (mlResponse.data).
RemoteWellFormed ==
    [prediction |-> "Medium Risk", confidence |-> 91,
     recommendations |-> << "Remote model advice" >>]
RemoteBadClass ==
    [prediction |-> "Severe", confidence |-> 50,
     recommendations |-> << "Remote model advice" >>]
RemoteBadConfidence ==
    [prediction |-> "Low Risk", confidence |-> 150,
     recommendations |-> << "Remote model advice" >>]
RemoteNoRecommendations == [prediction |-> "High Risk", confidence |-> 50]
RemoteEmptyRecommendations ==
    [prediction |-> "High Risk", confidence |-> 64, recommendations |-> << >>]
RemoteAnswers ==
    {RemoteWellFormed, RemoteBadClass, RemoteBadConfidence, RemoteNoRecommendations,
     RemoteEmptyRecommendations}

\* The ways axios.post rejects: timeout of 10000 ms, connection refused,
\* non-2xx status.
RemoteFailures == {"timeout", "refused", "status"}

\* Mutant: the classification has no enum.
SchemaAcceptsAnyClass(p) ==
    /\ Has(p, "prediction")
    /\ Has(p, "confidence")
    /\ p.confidence >= 0
    /\ p.confidence <= 100

\* Mongoose validation of the prediction sub-document at save(): prediction is
\* required and in the enum, confidence is required and in [0, 1].
SchemaAccepts(p) ==
    /\ Has(p, "prediction")
    /\ p.prediction \in {"Low Risk", "Medium Risk", "High Risk"}
    /\ Has(p, "confidence")
    /\ p.confidence >= 0
    /\ p.confidence <= 100

\* The document save() writes: schema defaults fill a missing recommendations
\* array ([]) and a missing timestamp (Date.now); timestamps: true sets
\* createdAt; _id is the document's position in the collection.
NewSubmission(id, userId, formData, p, now) ==
    [_id |-> id,
     userId |-> userId,
     formData |-> formData,
     prediction |->
        [prediction |-> p.prediction,
         confidence |-> p.confidence,
         recommendations |-> IF Has(p, "recommendations") THEN p.recommendations ELSE << >>,
         timestamp |-> IF Has(p, "timestamp") THEN p.timestamp ELSE now],
     ipAddress |-> "198.51.100.7",
     userAgent |-> "Mozilla/5.0",
     createdAt |-> now]

\* What the submit handler never touches.
ServerFrame == UNCHANGED <<engineVars, historyVars, dashVars>>

Respond(r, response) ==
    reqs' = [reqs EXCEPT ![r].pc = "done", ![r].response = response]

ServerError ==
    [status |-> 500, success |-> FALSE,
     message |-> "Server error during assessment submission"]

\* Requests are numbered in their order of arrival.
Arrives(r) ==
    /\ reqs[r].pc = "idle"
    /\ \A q \in 1..(r - 1) : reqs[q].pc # "idle"

\* Mutant: the rejected request is counted as a completed submission.
SubmitRejectedCounted(r, u, b) ==
    /\ Arrives(r)
    /\ validationResult(b) # << >>
    /\ reqs' = [reqs EXCEPT ![r].pc = "done", ![r].userId = u, ![r].formData = b,
                    ![r].response =
                        [status |-> 400, success |-> FALSE,
                         message |-> "Validation failed",
                         errors |-> validationResult(b)]]
    /\ assessmentCount' = [assessmentCount EXCEPT ![u] = @ + 1]
    /\ UNCHANGED <<submissions, clock>>
    /\ ServerFrame

\* Lines 28-60: a request arrives; validation failure answers 400, otherwise the
\* handler posts the features to the predictor and awaits.
SubmitRejected(r, u, b) ==
    /\ Arrives(r)
    /\ validationResult(b) # << >>
    /\ reqs' = [reqs EXCEPT ![r].pc = "done", ![r].userId = u, ![r].formData = b,
                    ![r].response =
                        [status |-> 400, success |-> FALSE,
                         message |-> "Validation failed",
                         errors |-> validationResult(b)]]
    /\ UNCHANGED <<submissions, assessmentCount, clock>>
    /\ ServerFrame

SubmitAccepted(r, u, b) ==
    /\ Arrives(r)
    /\ validationResult(b) = << >>
    /\ reqs' = [reqs EXCEPT ![r].pc = "predicting", ![r].userId = u,
                    ![r].formData = b, ![r].mlCalls = @ + 1]
    /\ UNCHANGED <<submissions, assessmentCount, clock>>
    /\ ServerFrame

\* Mutant: the engine's classification replaces the predictor's when the two
\* disagree.
PredictorAnswersBlended(r, data) ==
    /\ reqs[r].pc = "predicting"
    /\ reqs' = [reqs EXCEPT ![r].pc = "saving", ![r].mlOutcome = "answered",
                    ![r].mlData = data,
                    ![r].prediction =
                        IF Has(data, "prediction")
                        THEN [data EXCEPT !.prediction =
                                 generateFallbackPrediction(reqs[r].formData,
                                                            clock).prediction]
                        ELSE data]
    /\ UNCHANGED <<submissions, assessmentCount, clock>>
    /\ ServerFrame

\* Lines 62, 70-79: the predictor answers 2xx; its data (mlResponse.data)
\* becomes the prediction as it is, and save() is called.
PredictorAnswers(r, data) ==
    /\ reqs[r].pc = "predicting"
    /\ reqs' = [reqs EXCEPT ![r].pc = "saving", ![r].mlOutcome = "answered",
                    ![r].mlData = data, ![r].prediction = data]
    /\ UNCHANGED <<submissions, assessmentCount, clock>>
    /\ ServerFrame

\* Mutant: a rejected call is repeated once before the fallback.
PredictorFailsRetry(r, failure) ==
    /\ reqs[r].pc = "predicting"
    /\ IF reqs[r].mlCalls < 2
       THEN reqs' = [reqs EXCEPT ![r].mlCalls = @ + 1]
       ELSE reqs' = [reqs EXCEPT ![r].pc = "saving", ![r].mlOutcome = failure,
                        ![r].engineCalls = @ + 1,
                        ![r].prediction =
                            generateFallbackPrediction(reqs[r].formData, clock)]
    /\ UNCHANGED <<submissions, assessmentCount, clock>>
    /\ ServerFrame

\* Mutant: the call carries no timeout.
PredictorFailsNoTimeout(r, failure) ==
    /\ reqs[r].pc = "predicting"
    /\ failure # "timeout"
    /\ reqs' = [reqs EXCEPT ![r].pc = "saving", ![r].mlOutcome = failure,
                    ![r].engineCalls = @ + 1,
                    ![r].prediction = generateFallbackPrediction(reqs[r].formData, clock)]
    /\ UNCHANGED <<submissions, assessmentCount, clock>>
    /\ ServerFrame

\* Lines 63-79: axios.post rejects; the fallback computes the prediction and
\* save() is called.
PredictorFails(r, failure) ==
    /\ reqs[r].pc = "predicting"
    /\ reqs' = [reqs EXCEPT ![r].pc = "saving", ![r].mlOutcome = failure,
                    ![r].engineCalls = @ + 1,
                    ![r].prediction = generateFallbackPrediction(reqs[r].formData, clock)]
    /\ UNCHANGED <<submissions, assessmentCount, clock>>
    /\ ServerFrame

\* Lines 79-84: save() resolves; the document is in the collection and the
\* counter update is issued.
SaveResolves(r) ==
    /\ reqs[r].pc = "saving"
    /\ SchemaAccepts(reqs[r].prediction)
    /\ submissions' = Append(submissions,
                             NewSubmission(Len(submissions) + 1, reqs[r].userId,
                                           reqs[r].formData, reqs[r].prediction, clock))
    /\ reqs' = [reqs EXCEPT ![r].pc = "counting", ![r].savedId = Len(submissions) + 1]
    /\ UNCHANGED <<assessmentCount, clock>>
    /\ ServerFrame

\* Lines 79, 91-96: save() rejects with a ValidationError.
SaveInvalid(r) ==
    /\ reqs[r].pc = "saving"
    /\ ~SchemaAccepts(reqs[r].prediction)
    /\ Respond(r, ServerError)
    /\ UNCHANGED <<submissions, assessmentCount, clock>>
    /\ ServerFrame

\* Mutant: a rejected save() is swallowed and the prediction is returned.
SaveFaultsSwallowed(r) ==
    /\ reqs[r].pc = "saving"
    /\ SchemaAccepts(reqs[r].prediction)
    /\ reqs' = [reqs EXCEPT ![r].pc = "done", ![r].fault = "save",
                    ![r].response =
                        [status |-> 200, success |-> TRUE,
                         message |-> "Assessment completed successfully",
                         data |-> reqs[r].prediction]]
    /\ UNCHANGED <<submissions, assessmentCount, clock>>
    /\ ServerFrame

\* Lines 79, 91-96: the document is valid and save() rejects because the store
\* is unavailable.
SaveFaults(r) ==
    /\ reqs[r].pc = "saving"
    /\ SchemaAccepts(reqs[r].prediction)
    /\ reqs' = [reqs EXCEPT ![r].pc = "done", ![r].fault = "save",
                    ![r].response = ServerError]
    /\ UNCHANGED <<submissions, assessmentCount, clock>>
    /\ ServerFrame

\* Mutant: the counter is read, then written; of two requests of one user that
\* are updating it at once, the first write is overwritten by the second.
CountResolvesReadThenWrite(r) ==
    /\ reqs[r].pc = "counting"
    /\ assessmentCount' =
          [assessmentCount EXCEPT ![reqs[r].userId] =
              IF \E q \in Requests \ {r} : /\ reqs[q].pc = "counting"
                                           /\ reqs[q].userId = reqs[r].userId
              THEN @ ELSE @ + 1]
    /\ reqs' = [reqs EXCEPT ![r].pc = "done", ![r].counted = TRUE,
                    ![r].response =
                        [status |-> 200, success |-> TRUE,
                         message |-> "Assessment completed successfully",
                         data |-> reqs[r].prediction]]
    /\ UNCHANGED <<submissions, clock>>
    /\ ServerFrame

\* Lines 82-90: the $inc is applied atomically by the store; the handler
\* answers with the prediction.
CountResolves(r) ==
    /\ reqs[r].pc = "counting"
    /\ assessmentCount' = [assessmentCount EXCEPT ![reqs[r].userId] = @ + 1]
    /\ reqs' = [reqs EXCEPT ![r].pc = "done", ![r].counted = TRUE,
                    ![r].response =
                        [status |-> 200, success |-> TRUE,
                         message |-> "Assessment completed successfully",
                         data |-> reqs[r].prediction]]
    /\ UNCHANGED <<submissions, clock>>
    /\ ServerFrame

\* Lines 82-84, 91-96: findByIdAndUpdate rejects because the store is
\* unavailable.
CountFaults(r) ==
    /\ reqs[r].pc = "counting"
    /\ reqs' = [reqs EXCEPT ![r].pc = "done", ![r].fault = "count",
                    ![r].response = ServerError]
    /\ UNCHANGED <<submissions, assessmentCount, clock>>
    /\ ServerFrame

Init ==
    /\ ServerIdle
    /\ DashboardUnmounted
    /\ seed = EmptyBody
    /\ body = EmptyBody
    /\ stage = "received"
    /\ errors = << >>
    /\ riskScore = NoScore
    /\ fallback = NoPrediction

Next ==
    \/ \E r \in Requests, u \in Users, b \in SubmitBodies : SubmitRejected(r, u, b)
    \/ \E r \in Requests, u \in Users, b \in SubmitBodies : SubmitAccepted(r, u, b)
    \/ \E r \in Requests, data \in RemoteAnswers : PredictorAnswers(r, data)
    \/ \E r \in Requests, failure \in RemoteFailures : PredictorFails(r, failure)
    \/ \E r \in Requests : SaveResolves(r)
    \/ \E r \in Requests : SaveInvalid(r)
    \/ \E r \in Requests : SaveFaults(r)
    \/ \E r \in Requests : CountResolves(r)
    \/ \E r \in Requests : CountFaults(r)

Spec == Init /\ [][Next]_vars

\* The same handler under the scheduling the code relies on: the 10000 ms timer
\* of the predictor call fires if the call is still pending, and each store
\* operation returns (it resolves or it rejects).  Nothing makes the predictor
\* answer.
StoreReturns(r) ==
    \/ SaveResolves(r) \/ SaveInvalid(r) \/ SaveFaults(r)
    \/ CountResolves(r) \/ CountFaults(r)

\* The liveness specification draws its inputs from smaller sets: one user, a
\* well-formed and a malformed answer, a timeout and a refusal.
LiveUsers == {"u1"}
LiveAnswers == {RemoteWellFormed, RemoteBadClass}
LiveFailures == {"timeout", "refused"}

NextLive ==
    \/ \E r \in Requests, u \in LiveUsers, b \in SubmitBodies : SubmitRejected(r, u, b)
    \/ \E r \in Requests, u \in LiveUsers, b \in SubmitBodies : SubmitAccepted(r, u, b)
    \/ \E r \in Requests, data \in LiveAnswers : PredictorAnswers(r, data)
    \/ \E r \in Requests, failure \in LiveFailures : PredictorFails(r, failure)
    \/ \E r \in Requests : SaveResolves(r)
    \/ \E r \in Requests : SaveInvalid(r)
    \/ \E r \in Requests : SaveFaults(r)
    \/ \E r \in Requests : CountResolves(r)
    \/ \E r \in Requests : CountFaults(r)

SpecLive ==
    /\ Init /\ [][NextLive]_vars
    /\ \A r \in Requests : WF_vars(PredictorFails(r, "timeout"))
    /\ \A r \in Requests : WF_vars(StoreReturns(r))

-----------------------------------------------------------------------------
\* The history handler, router.get('/history'), against a store that submit
\* requests fill while it runs.

\* Mutant: skip is page * limit.
SkipOfOffByOne(page, limit) == page * limit

\* const skip = (page - 1) * limit
SkipOf(page, limit) == (page - 1) * limit

\* parseInt(req.query[key]) || dflt: a missing parameter parses to NaN, and NaN
\* and 0 are falsy.
ParseOr(query, key, dflt) ==
    IF Has(query, key) /\ query[key] # 0 THEN query[key] ELSE dflt

DefaultPage == 1
DefaultLimit == 10

\* Math.ceil(total / limit), limit >= 1.
Ceil(total, limit) == (total + limit - 1) \div limit

\* A query string carries page, limit, both or neither.
QueryStrings ==
    { [k \in keys |-> IF k = "page" THEN pl[1] ELSE pl[2]] :
        keys \in SUBSET {"page", "limit"},
        pl \in (0..MaxPage) \X (0..MaxLimit) }

\* Submission.find({ userId })
FindByUser(docs, u) == {docs[i] : i \in {j \in 1..Len(docs) : docs[j].userId = u}}

\* The documents of S with the latest createdAt.
Newest(S) == {d \in S : \A e \in S : e.createdAt <= d.createdAt}

\* .sort({ createdAt: -1 }): the orders of S by descending createdAt; the store
\* returns documents of equal createdAt in an order of its own.
RECURSIVE SortDescending(_)
SortDescending(S) ==
    IF S = {} THEN { << >> }
    ELSE UNION { { << d >> \o rest : rest \in SortDescending(S \ {d}) } : d \in Newest(S) }

Min(a, b) == IF a <= b THEN a ELSE b

\* .skip(skip).limit(limit)
SkipLimit(order, skip, limit) == SubSeq(order, skip + 1, Min(skip + limit, Len(order)))

\* Mutant: the projection is left out.
SelectAll(doc) == doc

\* .select('-ipAddress -userAgent')
Select(doc) == [f \in DOMAIN doc \ {"ipAddress", "userAgent"} |-> doc[f]]

HistoryError ==
    [status |-> 500, success |-> FALSE,
     message |-> "Server error fetching assessment history"]

HistoryFrame == UNCHANGED <<engineVars, reqs, assessmentCount, dashVars>>

\* A submit request of user u whose predictor failed has its save() resolve
\* (lines 63-79 of the submit handler).
StoreSubmission(u) ==
    /\ Len(submissions) < MaxStored
    /\ submissions' =
         Append(submissions,
                NewSubmission(Len(submissions) + 1, u, ScenarioVector,
                              generateFallbackPrediction(ScenarioVector, clock), clock))
    /\ UNCHANGED <<hist, clock>>
    /\ HistoryFrame

\* A millisecond passes.
Tick ==
    /\ clock < MaxClock
    /\ clock' = clock + 1
    /\ UNCHANGED <<hist, submissions>>
    /\ HistoryFrame

\* Lines 101-112: the request arrives, page, limit and skip are computed and
\* the find is issued.
HistoryArrives(u, query) ==
    /\ hist.pc = "idle"
    /\ LET page == ParseOr(query, "page", DefaultPage)
           limit == ParseOr(query, "limit", DefaultLimit)
       IN  hist' = [hist EXCEPT !.pc = "finding", !.userId = u, !.query = query, !.page = page,
                        !.limit = limit, !.skip = SkipOf(page, limit)]
    /\ UNCHANGED <<submissions, clock>>
    /\ HistoryFrame

\* Lines 108-114: the find resolves with the page of one descending order, and
\* countDocuments is issued.  found records how many documents of the user the
\* find saw.
HistoryFinds(order) ==
    /\ hist.pc = "finding"
    /\ LET page == SkipLimit(order, hist.skip, hist.limit)
       IN  hist' = [hist EXCEPT !.pc = "counting",
                        !.data = [i \in 1..Len(page) |-> Select(page[i])],
                        !.found = Len(order)]
    /\ UNCHANGED <<submissions, clock>>
    /\ HistoryFrame

\* Lines 114-125: countDocuments resolves and the handler answers.
HistoryCounts ==
    /\ hist.pc = "counting"
    /\ LET total == Cardinality(FindByUser(submissions, hist.userId))
       IN  hist' = [hist EXCEPT !.pc = "done",
                        !.response =
                            [status |-> 200, success |-> TRUE, data |-> hist.data,
                             pagination |->
                                [page |-> hist.page, limit |-> hist.limit,
                                 total |-> total,
                                 pages |-> Ceil(total, hist.limit)]]]
    /\ UNCHANGED <<submissions, clock>>
    /\ HistoryFrame

\* Lines 126-132: the find or the count rejects because the store is
\* unavailable.
HistoryFaults ==
    /\ hist.pc \in {"finding", "counting"}
    /\ hist' = [hist EXCEPT !.pc = "done", !.response = HistoryError]
    /\ UNCHANGED <<submissions, clock>>
    /\ HistoryFrame

NextHistory ==
    \/ \E u \in Users : StoreSubmission(u)
    \/ Tick
    \/ \E u \in Users, query \in QueryStrings : HistoryArrives(u, query)
    \/ \E order \in SortDescending(FindByUser(submissions, hist.userId)) : HistoryFinds(order)
    \/ HistoryCounts
    \/ HistoryFaults

SpecHistory == Init /\ [][NextHistory]_vars

-----------------------------------------------------------------------------
\* The dashboard (pages/Dashboard.tsx) with the two API calls it makes
\* (services/api.ts), against a server that holds the user's Submissions.

RiskClasses == {"Low Risk", "Medium Risk", "High Risk"}

\* An assessment of each classification, as the scoring engine produces it.
AssessmentOf(class) ==
    generateFallbackPrediction(
        CASE class = "Low Risk" -> MinRiskVector
          [] class = "Medium Risk" -> Score30hVector
          [] OTHER -> ScenarioVector, 0)

\* The Submission the server stores for an assessment (types/index.ts).
SubmissionOf(id, assessment) == [id |-> id, prediction |-> assessment]

\* The user's stored Submissions at mount, newest first: every sequence of up
\* to MaxPrior classifications.
RECURSIVE PriorHistories(_)
PriorHistories(n) ==
    IF n = 0 THEN { << >> }
    ELSE PriorHistories(n - 1) \cup
         { << SubmissionOf(n, AssessmentOf(c)) >> \o h :
             c \in RiskClasses,
             h \in {g \in PriorHistories(n - 1) : Len(g) = n - 1} }

\* Mutant: the comparison is reversed.
getRiskTrendReversed(history) ==
    IF Len(history) < 2 THEN Null
    ELSE LET riskLevels == [c \in RiskClasses |->
                               CASE c = "Low Risk" -> 1
                                 [] c = "Medium Risk" -> 2
                                 [] OTHER -> 3]
             latestLevel == riskLevels[history[1].prediction.prediction]
             previousLevel == riskLevels[history[2].prediction.prediction]
         IN  IF latestLevel > previousLevel THEN "improving"
             ELSE IF latestLevel < previousLevel THEN "worsening"
             ELSE "stable"

\* Mutant: the guard lets a single submission through and compares it with
\* itself.
getRiskTrendNoGuard(history) ==
    IF Len(history) < 1 THEN Null
    ELSE LET riskLevels == [c \in RiskClasses |->
                               CASE c = "Low Risk" -> 1
                                 [] c = "Medium Risk" -> 2
                                 [] OTHER -> 3]
             latestLevel == riskLevels[history[1].prediction.prediction]
             previousLevel == riskLevels[history[Min(2, Len(history))].prediction.prediction]
         IN  IF latestLevel < previousLevel THEN "improving"
             ELSE IF latestLevel > previousLevel THEN "worsening"
             ELSE "stable"

\* getRiskTrend, over assessmentHistory (index 0 of the code is index 1 here).
getRiskTrend(history) ==
    IF Len(history) < 2 THEN Null
    ELSE LET latest == history[1]
             previous == history[2]
             riskLevels == [c \in RiskClasses |->
                               CASE c = "Low Risk" -> 1
                                 [] c = "Medium Risk" -> 2
                                 [] OTHER -> 3]
             latestLevel == riskLevels[latest.prediction.prediction]
             previousLevel == riskLevels[previous.prediction.prediction]
         IN  IF latestLevel < previousLevel THEN "improving"
             ELSE IF latestLevel > previousLevel THEN "worsening"
             ELSE "stable"

DashFrame == UNCHANGED <<engineVars, serverVars, historyVars>>

\* The dashboard mounts for a user with some stored Submissions; the effect of
\* lines 17-19 has called loadAssessmentHistory (load 0).
InitDash ==
    /\ ServerIdle
    /\ seed = EmptyBody
    /\ body = EmptyBody
    /\ stage = "received"
    /\ errors = << >>
    /\ riskScore = NoScore
    /\ fallback = NoPrediction
    /\ currentAssessment = NoPrediction
    /\ assessmentHistory = << >>
    /\ isLoading = FALSE
    /\ trend = Null
    /\ serverHistory \in PriorHistories(MaxPrior)
    /\ submit = IdleSubmit
    /\ loads = [k \in Loads |-> IF k = 0 THEN [UnsentLoad EXCEPT !.pc = "sent"]
                                ELSE UnsentLoad]

\* The number of the load a submit starts: one per submit, after load 0.
NextLoad == CHOOSE k \in Loads \cup {MaxSubmits + 1} :
                /\ k > 0
                /\ k \in Loads => loads[k].pc = "unsent"
                /\ \A j \in 1..(k - 1) : loads[j].pc # "unsent"

\* Lines 35-38: the user submits the form; the button is disabled while
\* isLoading.
SubmitForm ==
    /\ ~isLoading
    /\ submit.pc = "idle"
    /\ NextLoad \in Loads
    /\ isLoading' = TRUE
    /\ submit' = [submit EXCEPT !.pc = "posting"]
    /\ UNCHANGED <<currentAssessment, assessmentHistory, trend, serverHistory, loads>>
    /\ DashFrame

\* The server completes the submit: the Submission is stored and the answer
\* carries its prediction.
ServerAssesses(class) ==
    /\ submit.pc = "posting"
    /\ serverHistory' =
          << SubmissionOf(Len(serverHistory) + 1, AssessmentOf(class)) >> \o serverHistory
    /\ submit' = [pc |-> "answered",
                  response |-> [success |-> TRUE, data |-> AssessmentOf(class)]]
    /\ UNCHANGED <<currentAssessment, assessmentHistory, isLoading, trend, loads>>
    /\ DashFrame

\* The submit fails (status 400 or 500, or no answer): submitForm resolves to
\* { success: false, error }.
ServerRefuses ==
    /\ submit.pc = "posting"
    /\ submit' = [pc |-> "answered",
                  response |-> [success |-> FALSE, error |-> "Assessment failed"]]
    /\ UNCHANGED <<currentAssessment, assessmentHistory, isLoading, trend,
                   serverHistory, loads>>
    /\ DashFrame

\* Lines 39-41: the answer is a success; the assessment is shown and
\* loadAssessmentHistory is called and awaited.
SubmitSucceeds ==
    /\ submit.pc = "answered"
    /\ submit.response.success
    /\ currentAssessment' = submit.response.data
    /\ loads' = [loads EXCEPT ![NextLoad].pc = "sent"]
    /\ submit' = [submit EXCEPT !.pc = "loading"]
    /\ UNCHANGED <<assessmentHistory, isLoading, trend, serverHistory>>
    /\ DashFrame

\* Lines 42-50: the answer is a failure; alert, then setIsLoading(false).
SubmitFails ==
    /\ submit.pc = "answered"
    /\ ~submit.response.success
    /\ isLoading' = FALSE
    /\ submit' = IdleSubmit
    /\ UNCHANGED <<currentAssessment, assessmentHistory, trend, serverHistory, loads>>
    /\ DashFrame

\* The server answers a history request with the ten newest Submissions.
ServerLists(k) ==
    /\ loads[k].pc = "sent"
    /\ loads' = [loads EXCEPT ![k] =
                    [pc |-> "answered",
                     response |-> [success |-> TRUE,
                                   data |-> SkipLimit(serverHistory, 0, DefaultLimit)]]]
    /\ UNCHANGED <<currentAssessment, assessmentHistory, isLoading, trend,
                   serverHistory, submit>>
    /\ DashFrame

\* The history request fails: getHistory resolves to { success: false, error }.
ServerListFails(k) ==
    /\ loads[k].pc = "sent"
    /\ loads' = [loads EXCEPT ![k] =
                    [pc |-> "answered",
                     response |-> [success |-> FALSE,
                                   error |-> "Failed to fetch history"]]]
    /\ UNCHANGED <<currentAssessment, assessmentHistory, isLoading, trend,
                   serverHistory, submit>>
    /\ DashFrame

\* Lines 23-29 (and 48-50 when the load is the one a submit awaits): the answer
\* reaches loadAssessmentHistory, the state is set and the dashboard renders.
LoadReturns(k) ==
    /\ loads[k].pc = "answered"
    /\ loads' = [loads EXCEPT ![k].pc = "done"]
    /\ IF loads[k].response.success
       THEN /\ assessmentHistory' = loads[k].response.data
            /\ trend' = getRiskTrend(loads[k].response.data)
            /\ currentAssessment' =
                  IF Len(loads[k].response.data) > 0
                  THEN loads[k].response.data[1].prediction
                  ELSE currentAssessment
       ELSE UNCHANGED <<assessmentHistory, trend, currentAssessment>>
    /\ IF k > 0
       THEN isLoading' = FALSE /\ submit' = IdleSubmit
       ELSE UNCHANGED <<isLoading, submit>>
    /\ UNCHANGED serverHistory
    /\ DashFrame

NextDash ==
    \/ SubmitForm
    \/ \E class \in RiskClasses : ServerAssesses(class)
    \/ ServerRefuses
    \/ SubmitSucceeds
    \/ SubmitFails
    \/ \E k \in Loads : ServerLists(k)
    \/ \E k \in Loads : ServerListFails(k)
    \/ \E k \in Loads : LoadReturns(k)

SpecDash == InitDash /\ [][NextDash]_vars

-----------------------------------------------------------------------------
\* Properties of the scoring pipeline (checked under SpecEngine).

\* The request under assessment passed validation and was scored.
Scored == stage = "assessed" /\ errors = << >>

\* The declared range of a field, as the data model states it.
DeclaredMin(f) == IF f = "sleepHours" THEN 0 ELSE 1
DeclaredMax(f) == IF f = "sleepHours" THEN 12 ELSE 10
Violated(b, f) == ~Has(b, f) \/ b[f] < DeclaredMin(f) \/ b[f] > DeclaredMax(f)

\* C2: the engine classifies by the score with inclusive upper boundaries:
\* score <= 30 is Low Risk, 30 < score <= 60 is Medium Risk, score > 60 is High
\* Risk (scores in half-points: 30.0 is 60, 60.0 is 120).
C2_InclusiveThresholds ==
    Scored =>
        /\ riskScore <= 60 => fallback.prediction = "Low Risk"
        /\ riskScore > 60 /\ riskScore <= 120 => fallback.prediction = "Medium Risk"
        /\ riskScore > 120 => fallback.prediction = "High Risk"

\* C2 witness: a vector scoring exactly 60.0 has been classified Medium Risk.
C2_Witness ==
    Scored /\ riskScore = 120 /\ fallback.prediction = "Medium Risk"

\* C3: the risk score equals the weighted sum of the claim (in half-points), and
\* the scenario vector scores 91.5 and is High Risk with confidence 0.82 and the
\* High Risk recommendations.
C3_ScoreFormula ==
    Scored =>
        /\ riskScore =
             (IF body.sleepHours < 6 THEN 30
              ELSE IF body.sleepHours < 7 THEN 16
              ELSE IF body.sleepHours > 9 THEN 10 ELSE 0)
             + 4 * (body.anxietyLevel - 1) + 4 * (body.stressFrequency - 1)
             + 3 * (body.financialStress - 1) + 6 * (body.substanceUse - 1)
             + 4 * (body.moodChanges - 1) + 10 * (body.suicidalThoughts - 1)
             + 4 * (10 - body.socialSupport) + 3 * (10 - body.workLifeBalance)
             + 2 * (10 - body.physicalActivity)
        /\ body = ScenarioVector =>
             /\ riskScore = 183
             /\ fallback.prediction = "High Risk"
             /\ fallback.confidence = 82
             /\ fallback.recommendations = HighRecommendations

\* C3 witness: the scenario vector has been scored.
C3_Witness == Scored /\ body = ScenarioVector /\ riskScore = 183

\* C4: confidence and recommendations are fixed per classification: Low Risk
\* 0.85 and the 4-item set A, Medium Risk 0.78 and the 5-item set B, High Risk
\* 0.82 and the 5-item set C.
C4_FixedPerClassification ==
    Scored =>
        /\ fallback.prediction \in {"Low Risk", "Medium Risk", "High Risk"}
        /\ fallback.prediction = "Low Risk" =>
             /\ fallback.confidence = 85
             /\ fallback.recommendations = LowRecommendations
             /\ Len(fallback.recommendations) = 4
        /\ fallback.prediction = "Medium Risk" =>
             /\ fallback.confidence = 78
             /\ fallback.recommendations = MediumRecommendations
             /\ Len(fallback.recommendations) = 5
        /\ fallback.prediction = "High Risk" =>
             /\ fallback.confidence = 82
             /\ fallback.recommendations = HighRecommendations
             /\ Len(fallback.recommendations) = 5

\* C4 witness: a High Risk vector far above the threshold (score above 150)
\* carries the same 0.82 as every High Risk vector.
C4_Witness ==
    Scored /\ fallback.prediction = "High Risk" /\ riskScore > 300
           /\ fallback.confidence = 82

RiskFactors ==
    {"suicidalThoughts", "anxietyLevel", "stressFrequency", "financialStress",
     "substanceUse", "moodChanges"}
ProtectiveFactors == {"socialSupport", "workLifeBalance", "physicalActivity"}

\* The next request is valid and differs from the scored one in field f alone,
\* where it is larger.
RaisesOnly(f) ==
    /\ Scored
    /\ validationResult(body') = << >>
    /\ body'[f] > body[f]
    /\ \A g \in FieldNames \ {f} : body'[g] = body[g]

\* C5: with the other nine fields fixed, raising a risk factor never lowers the
\* score and raising a protective factor never raises it.
C5_Monotone ==
    [][ /\ \A f \in RiskFactors : RaisesOnly(f) => RiskScore(body') >= riskScore
        /\ \A f \in ProtectiveFactors : RaisesOnly(f) => RiskScore(body') <= riskScore
      ]_vars

\* C5 witness: a scored vector that is its seed with social support raised, and
\* scores less than the seed.
C5_Witness ==
    /\ Scored
    /\ validationResult(seed) = << >>
    /\ body.socialSupport > seed.socialSupport
    /\ \A g \in FieldNames \ {"socialSupport"} : body[g] = seed[g]
    /\ riskScore < RiskScore(seed)

\* C6: the validator rejects exactly the bodies with a missing or out-of-range
\* field, and the rejection lists every violated field (each once).
C6_AllViolationsListed ==
    stage = "assessed" =>
        /\ {errors[i].path : i \in 1..Len(errors)} = {f \in FieldNames : Violated(body, f)}
        /\ Len(errors) = Cardinality({f \in FieldNames : Violated(body, f)})
        /\ (errors = << >>) <=> (\A f \in FieldNames : ~Violated(body, f))

\* C6 witness: a rejection listing a missing field and an out-of-range field.
C6_Witness ==
    /\ stage = "assessed"
    /\ Len(errors) >= 2
    /\ \E i, j \in 1..Len(errors) :
          /\ ~Has(body, errors[i].path)
          /\ Has(body, errors[j].path)

-----------------------------------------------------------------------------
\* Properties of the submit handler (checked under Spec).

\* The shape the predictor's answer is expected to have.
WellFormedAnswer(d) ==
    /\ Has(d, "prediction") /\ d.prediction \in RiskClasses
    /\ Has(d, "confidence") /\ d.confidence >= 0 /\ d.confidence <= 100
    /\ Has(d, "recommendations")

\* The predictor call of request r failed: it was rejected, or it answered with
\* a malformed response.
PredictorFailed(r) ==
    \/ reqs[r].mlOutcome \in RemoteFailures
    \/ reqs[r].mlOutcome = "answered" /\ ~WellFormedAnswer(reqs[r].prediction)

\* The assessment d is the scoring engine's output for the vector.
IsEngineOutput(d, formData) ==
    LET engine == generateFallbackPrediction(formData, 0)
    IN  /\ Has(d, "prediction") /\ d.prediction = engine.prediction
        /\ Has(d, "confidence") /\ d.confidence = engine.confidence
        /\ Has(d, "recommendations") /\ d.recommendations = engine.recommendations

\* C1: when the predictor call fails by timeout, refusal, error status or a
\* malformed response (and the store does not fail), the request ends with a
\* success response carrying the scoring engine's output.
C1_PredictorFailureFallsBack ==
    \A r \in Requests :
        reqs[r].pc = "done" /\ reqs[r].fault = "none" /\ PredictorFailed(r) =>
            /\ reqs[r].response.status = 200
            /\ reqs[r].response.success
            /\ IsEngineOutput(reqs[r].response.data, reqs[r].formData)

\* C10: a submit request ends either with a success response, its Submission
\* persisted and the counter incremented, or with an error response and no
\* Submission persisted and no counter change.
C10_NoPartialSuccess ==
    \A r \in Requests :
        reqs[r].pc = "done" =>
            \/ /\ reqs[r].response.status = 200
               /\ reqs[r].savedId # 0
               /\ reqs[r].counted
            \/ /\ reqs[r].response.status # 200
               /\ reqs[r].savedId = 0
               /\ ~reqs[r].counted

\* The Submission that request r stored.
StoredBy(r) == submissions[reqs[r].savedId]

\* The stored assessment carries every field of the assessment d, with d's
\* value.
Holds(stored, d) == \A f \in DOMAIN d : Has(stored, f) /\ stored[f] = d[f]

\* The store and the counters hold what the requests' completed writes put
\* there, and nothing else.
Accounted ==
    /\ Len(submissions) = Cardinality({r \in Requests : reqs[r].savedId # 0})
    /\ \A u \in Users :
          assessmentCount[u] =
              Cardinality({r \in Requests : reqs[r].userId = u /\ reqs[r].counted})

\* C11: when the write of the Submission fails the request answers with an
\* error, returns no assessment and leaves the counter alone; every success
\* response belongs to a request whose Submission is in the store and holds
\* the returned assessment.
C11_NoSuccessWithoutStoredSubmission ==
    /\ Accounted
    /\ \A r \in Requests :
          /\ reqs[r].fault = "save" =>
                /\ reqs[r].pc = "done"
                /\ reqs[r].response.status = 500
                /\ ~reqs[r].response.success
          /\ reqs[r].pc = "done" /\ reqs[r].savedId = 0 =>
                /\ reqs[r].response.status \in {400, 500}
                /\ ~Has(reqs[r].response, "data")
                /\ ~reqs[r].counted
          /\ reqs[r].response.status = 200 =>
                /\ reqs[r].savedId \in 1..Len(submissions)
                /\ StoredBy(r).userId = reqs[r].userId
                /\ StoredBy(r).formData = reqs[r].formData
                /\ Holds(StoredBy(r).prediction, reqs[r].response.data)

\* C11 witness: one request's save() was rejected by the store and it answered
\* 500, while another request of the same user succeeded.
C11_Witness ==
    \E r, q \in Requests :
        /\ reqs[r].pc = "done" /\ reqs[r].fault = "save"
        /\ reqs[q].response.status = 200
        /\ reqs[q].userId = reqs[r].userId
        /\ assessmentCount[reqs[r].userId] = 1

\* No submit request is in flight.
Quiescent == \A r \in Requests : reqs[r].pc \in {"idle", "done"}

\* The Submissions persisted for user u.
PersistedFor(u) == {i \in 1..Len(submissions) : submissions[i].userId = u}

\* C12: once all submit requests have run to completion, each user's
\* assessmentCount equals the number of Submissions persisted for that user,
\* whatever failed on the way.
C12_CounterEqualsPersisted ==
    Quiescent => \A u \in Users : assessmentCount[u] = Cardinality(PersistedFor(u))

\* C13: a request rejected by validation has called neither the predictor nor
\* the engine, has stored no Submission and has not touched the counter; its
\* only effect is the 400 response carrying the violations.
C13_RejectionHasNoSideEffect ==
    /\ Accounted
    /\ \A r \in Requests :
          reqs[r].response.status = 400 =>
              /\ reqs[r].pc = "done"
              /\ reqs[r].mlCalls = 0
              /\ reqs[r].engineCalls = 0
              /\ reqs[r].savedId = 0
              /\ ~reqs[r].counted
              /\ DOMAIN reqs[r].response = {"status", "success", "message", "errors"}
              /\ reqs[r].response.errors = validationResult(reqs[r].formData)
              /\ reqs[r].response.errors # << >>

\* C13 witness: a user's vector was rejected with two violations while the
\* store and the user's counter are empty.
C13_Witness ==
    \E r \in Requests :
        /\ reqs[r].response.status = 400
        /\ Len(reqs[r].response.errors) = 2
        /\ submissions = << >>
        /\ assessmentCount[reqs[r].userId] = 0

\* C14: when the predictor's answer is well-formed, the engine is not invoked,
\* and the prediction that is persisted and returned is that answer, field by
\* field.
C14_RemoteAnswerWins ==
    \A r \in Requests :
        reqs[r].mlOutcome = "answered" /\ WellFormedAnswer(reqs[r].mlData) =>
            /\ reqs[r].engineCalls = 0
            /\ reqs[r].prediction = reqs[r].mlData
            /\ reqs[r].savedId # 0 =>
                  /\ Holds(StoredBy(r).prediction, reqs[r].mlData)
                  /\ DOMAIN StoredBy(r).prediction \ DOMAIN reqs[r].mlData = {"timestamp"}
            /\ reqs[r].response.status = 200 => reqs[r].response.data = reqs[r].mlData

\* C14 witness: a request succeeded with the predictor's Medium Risk answer for
\* a vector the engine classifies High Risk.
C14_Witness ==
    \E r \in Requests :
        /\ reqs[r].response.status = 200
        /\ reqs[r].mlData = RemoteWellFormed
        /\ reqs[r].response.data.prediction = "Medium Risk"
        /\ generateFallbackPrediction(reqs[r].formData, 0).prediction = "High Risk"
        /\ StoredBy(r).prediction.prediction = "Medium Risk"

\* C15: every assessment returned by a succeeded request has a non-empty
\* recommendation list, and two returned assessments with the same
\* classification have the same recommendations.
C15_RecommendationsByClassification ==
    \A r \in Requests :
        reqs[r].response.status = 200 =>
            /\ Has(reqs[r].response.data, "recommendations")
            /\ Len(reqs[r].response.data.recommendations) > 0
            /\ \A q \in Requests :
                  /\ reqs[q].response.status = 200
                  /\ reqs[q].response.data.prediction = reqs[r].response.data.prediction
                  => /\ Has(reqs[q].response.data, "recommendations")
                     /\ reqs[q].response.data.recommendations =
                            reqs[r].response.data.recommendations

\* C18: within one request the predictor is called at most once and the engine
\* at most once; the engine runs only after the one call was rejected, and
\* then the prediction is the engine's output.
C18_SingleAttemptThenEngine ==
    \A r \in Requests :
        /\ reqs[r].mlCalls <= 1
        /\ reqs[r].engineCalls <= 1
        /\ reqs[r].engineCalls = 1 =>
              /\ reqs[r].mlCalls = 1
              /\ reqs[r].mlOutcome \in RemoteFailures
              /\ IsEngineOutput(reqs[r].prediction, reqs[r].formData)
        /\ reqs[r].mlOutcome \in RemoteFailures => reqs[r].engineCalls = 1
        /\ reqs[r].mlOutcome = "answered" => reqs[r].mlCalls = 1 /\ reqs[r].engineCalls = 0

\* C18 witness: a request succeeded on the engine's output after its one
\* predictor call was refused.
C18_Witness ==
    \E r \in Requests :
        /\ reqs[r].response.status = 200
        /\ reqs[r].mlOutcome = "refused"
        /\ reqs[r].mlCalls = 1
        /\ reqs[r].engineCalls = 1

\* C19: under SpecLive, every submit request with a valid vector that is
\* waiting on the predictor eventually has its response, even if the predictor
\* never answers.
C19_SubmitEventuallyResponds ==
    \A r \in Requests :
        (reqs[r].pc = "predicting") ~>
            (reqs[r].pc = "done" /\ reqs[r].response.status \in {200, 500})

\* C19 witness: a request whose predictor call timed out has answered with the
\* engine's output.
C19_Witness ==
    \E r \in Requests :
        /\ reqs[r].pc = "done"
        /\ reqs[r].mlOutcome = "timeout"
        /\ reqs[r].response.status = 200
        /\ IsEngineOutput(reqs[r].response.data, reqs[r].formData)

\* The submit requests of user u that have arrived.
SubmittedBy(u) == {r \in Requests : reqs[r].pc # "idle" /\ reqs[r].userId = u}

\* C20: once all N submit requests of a user have completed, with valid
\* vectors and every store operation accepted, exactly N Submissions exist for
\* the user and assessmentCount has grown from 0 to N, in every interleaving.
C20_NoLostIncrement ==
    \A u \in Users :
        /\ Quiescent
        /\ \A r \in SubmittedBy(u) :
              /\ validationResult(reqs[r].formData) = << >>
              /\ reqs[r].fault = "none"
              /\ SchemaAccepts(reqs[r].prediction)
        => /\ Cardinality(PersistedFor(u)) = Cardinality(SubmittedBy(u))
           /\ assessmentCount[u] = Cardinality(SubmittedBy(u))

\* C20 witness: two requests of one user overlapped (the one that arrived first
\* saved second) and both completed; the user has two Submissions and a
\* counter of 2.
C20_Witness ==
    /\ Quiescent
    /\ reqs[1].userId = reqs[2].userId
    /\ reqs[1].savedId = 2 /\ reqs[2].savedId = 1
    /\ reqs[1].counted /\ reqs[2].counted
    /\ assessmentCount[reqs[1].userId] = 2
    /\ Cardinality(PersistedFor(reqs[1].userId)) = 2

\* C21: every persisted Submission has the ten factor fields present and within
\* their declared ranges, as the request sent them, a classification among the
\* three classes and a confidence in [0, 1]; a request whose prediction
\* violates this has stored nothing.
C21_StoredSubmissionsValid ==
    /\ \A i \in 1..Len(submissions) :
          /\ DOMAIN submissions[i].formData = FieldNames
          /\ \A f \in FieldNames : ~Violated(submissions[i].formData, f)
          /\ submissions[i].prediction.prediction \in RiskClasses
          /\ submissions[i].prediction.confidence >= 0
          /\ submissions[i].prediction.confidence <= 100
          /\ \E r \in Requests :
                reqs[r].savedId = i /\ submissions[i].formData = reqs[r].formData
    /\ \A r \in Requests :
          /\ reqs[r].pc \in {"saving", "counting", "done"}
          /\ \/ ~Has(reqs[r].prediction, "prediction")
             \/ reqs[r].prediction.prediction \notin RiskClasses
             \/ ~Has(reqs[r].prediction, "confidence")
             \/ reqs[r].prediction.confidence < 0
             \/ reqs[r].prediction.confidence > 100
          => reqs[r].savedId = 0

\* C21 witness: a request whose predictor answered with an unknown
\* classification was refused by the store, which holds the Submission of
\* another request.
C21_Witness ==
    \E r, q \in Requests :
        /\ reqs[r].pc = "done"
        /\ reqs[r].mlData = RemoteBadClass
        /\ reqs[r].savedId = 0
        /\ reqs[r].response.status = 500
        /\ reqs[q].savedId = 1
        /\ Len(submissions) = 1

\* C23: every assessment returned by a succeeded request carries a timestamp,
\* whether the predictor or the engine produced it, and is the same as the
\* assessment persisted in the request's Submission.
C23_ReturnedAssessmentTimestamped ==
    \A r \in Requests :
        reqs[r].response.status = 200 =>
            /\ Has(reqs[r].response.data, "timestamp")
            /\ reqs[r].response.data = StoredBy(r).prediction

-----------------------------------------------------------------------------
\* Properties of the history handler (checked under SpecHistory).

\* The documents of the user that the find of the history request saw: the
\* store only grows, so they are the user's first hist.found documents.
Seen ==
    LET mine == FindByUser(submissions, hist.userId)
    IN  {d \in mine : Cardinality({e \in mine : e._id <= d._id}) <= hist.found}

\* A history request with page >= 1 and limit >= 1 has been answered, and no
\* Submission of the user was stored between its find and its count.
Answered ==
    /\ hist.pc = "done"
    /\ hist.response.status = 200
    /\ Has(hist.query, "page") /\ hist.query.page >= 1
    /\ Has(hist.query, "limit") /\ hist.query.limit >= 1
    /\ hist.response.pagination.total = hist.found

\* The answer holds the submissions at recency positions (p-1)*L+1 through
\* min(p*L, total) with total and pages = ceil(total/L); the order of the items
\* is strictly descending or, with strict = FALSE, non-increasing.
PageClaim(strict) ==
    LET p == hist.query.page
        L == hist.query.limit
        data == hist.response.data
        total == Cardinality(Seen)
        first == (p - 1) * L + 1
        last == Min(p * L, total)
        pages == hist.response.pagination.pages
    IN  /\ Len(data) = IF last >= first THEN last - first + 1 ELSE 0
        /\ \A i \in 1..Len(data) :
              \* the item is a stored submission of the user, at a position
              \* its creation time allows
              /\ \E d \in Seen : d._id = data[i]._id /\ data[i].createdAt = d.createdAt
                                  /\ data[i].formData = d.formData
                                  /\ data[i].prediction = d.prediction
              /\ Cardinality({d \in Seen : d.createdAt > data[i].createdAt}) <= first + i - 2
              /\ Cardinality({d \in Seen : d.createdAt >= data[i].createdAt}) >= first + i - 1
        /\ \A i, j \in 1..Len(data) :
              i < j => /\ data[i]._id # data[j]._id
                       /\ IF strict THEN data[i].createdAt > data[j].createdAt
                          ELSE data[i].createdAt >= data[j].createdAt
        /\ hist.response.pagination.total = total
        /\ hist.response.pagination.page = p
        /\ hist.response.pagination.limit = L
        /\ pages * L >= total
        /\ (pages - 1) * L < total

\* C9 (as stated): the page is in strictly descending creation-time order.
C9_StrictlyDescendingPage == Answered => PageClaim(TRUE)

\* C9 (amended): the page is in non-increasing creation-time order (two
\* submissions stored in the same millisecond have equal creation times), and
\* holds the submissions at positions (p-1)*L+1 through min(p*L, total) of a
\* newest-first order, with total and pages = ceil(total/L).
C9_Pagination == Answered => PageClaim(FALSE)

\* C9 witness: page 2 with limit 2 of three stored submissions holds one item,
\* the oldest, and pages = 2.
C9_Witness ==
    /\ Answered
    /\ hist.query.page = 2 /\ hist.query.limit = 2
    /\ hist.response.pagination.total = 3
    /\ hist.response.pagination.pages = 2
    /\ Len(hist.response.data) = 1
    /\ \A d \in Seen : d.createdAt >= hist.response.data[1].createdAt

\* C17: every stored Submission carries ipAddress and userAgent, and no item of
\* a History response carries either, for any page and limit.
C17_ProvenanceStoredNotListed ==
    /\ \A i \in 1..Len(submissions) :
          Has(submissions[i], "ipAddress") /\ Has(submissions[i], "userAgent")
    /\ hist.response.status = 200 =>
          \A i \in 1..Len(hist.response.data) :
              /\ ~Has(hist.response.data[i], "ipAddress")
              /\ ~Has(hist.response.data[i], "userAgent")
              /\ \E d \in FindByUser(submissions, hist.userId) :
                    /\ d._id = hist.response.data[i]._id
                    /\ Has(d, "ipAddress") /\ Has(d, "userAgent")
                    /\ \A f \in DOMAIN d \ {"ipAddress", "userAgent"} :
                          hist.response.data[i][f] = d[f]

\* C17 witness: a History response lists two Submissions that are stored with
\* their provenance.
C17_Witness ==
    /\ hist.response.status = 200
    /\ Len(hist.response.data) = 2
    /\ \A i \in 1..2 :
          \E d \in FindByUser(submissions, hist.userId) :
              d._id = hist.response.data[i]._id /\ d.ipAddress = "198.51.100.7"

-----------------------------------------------------------------------------
\* Properties of the dashboard (checked under SpecDash).

\* The classification of the i-th entry of assessmentHistory (1 = newest).
ClassAt(i) == assessmentHistory[i].prediction.prediction

\* C7 (as stated): newest-first classifications [Low, Medium] give worsening,
\* [High, Medium] improving, [Medium, Medium] stable, and a single submission
\* gives no trend.
C7_TrendExamples ==
    /\ Len(assessmentHistory) >= 2 /\ ClassAt(1) = "Low Risk" /\ ClassAt(2) = "Medium Risk"
          => trend = "worsening"
    /\ Len(assessmentHistory) >= 2 /\ ClassAt(1) = "High Risk" /\ ClassAt(2) = "Medium Risk"
          => trend = "improving"
    /\ Len(assessmentHistory) >= 2 /\ ClassAt(1) = "Medium Risk" /\ ClassAt(2) = "Medium Risk"
          => trend = "stable"
    /\ Len(assessmentHistory) = 1 => trend = Null

\* C7 (amended): newest-first classifications [Low, Medium] give improving (the
\* newest is the lower risk), [High, Medium] worsening, [Medium, Medium] stable,
\* and a single submission gives no trend.
C7_TrendExamplesNewestFirst ==
    /\ Len(assessmentHistory) >= 2 /\ ClassAt(1) = "Low Risk" /\ ClassAt(2) = "Medium Risk"
          => trend = "improving"
    /\ Len(assessmentHistory) >= 2 /\ ClassAt(1) = "High Risk" /\ ClassAt(2) = "Medium Risk"
          => trend = "worsening"
    /\ Len(assessmentHistory) >= 2 /\ ClassAt(1) = "Medium Risk" /\ ClassAt(2) = "Medium Risk"
          => trend = "stable"
    /\ Len(assessmentHistory) = 1 => trend = Null

\* C7 witness: the dashboard shows a history whose two newest entries are Low
\* then Medium, and the trend improving.
C7_Witness ==
    /\ Len(assessmentHistory) >= 2
    /\ ClassAt(1) = "Low Risk" /\ ClassAt(2) = "Medium Risk"
    /\ trend = "improving"

\* The ordinal of a classification.
Ordinal(class) ==
    CASE class = "Low Risk" -> 1 [] class = "Medium Risk" -> 2 [] class = "High Risk" -> 3

\* C8: the trend compares the ordinals of the newest entry and the one before
\* it: less gives improving, greater gives worsening, equal gives stable; with
\* fewer than two entries there is no trend.
C8_OrdinalComparison ==
    /\ Len(assessmentHistory) < 2 => trend = Null
    /\ Len(assessmentHistory) >= 2 =>
          /\ Ordinal(ClassAt(1)) < Ordinal(ClassAt(2)) <=> trend = "improving"
          /\ Ordinal(ClassAt(1)) > Ordinal(ClassAt(2)) <=> trend = "worsening"
          /\ Ordinal(ClassAt(1)) = Ordinal(ClassAt(2)) <=> trend = "stable"

\* C8 witness: a history of a single submission has been loaded and shows no
\* trend.
C8_Witness == Len(assessmentHistory) = 1 /\ trend = Null /\ loads[0].pc = "done"

\* A submit has succeeded, its history load and every other load have
\* completed with a success answer, and nothing is in flight.
SettledAfterSubmit ==
    /\ submit.pc = "idle"
    /\ loads[1].pc = "done"
    /\ \A k \in Loads :
          /\ loads[k].pc \in {"unsent", "done"}
          /\ loads[k].pc = "done" => loads[k].response.success

\* C24: after a successful submit, once every history load has completed,
\* assessmentHistory starts with the newest stored submission and
\* currentAssessment is its prediction, whatever the order of the responses.
C24_NoStaleOverwrite ==
    SettledAfterSubmit =>
        /\ Len(assessmentHistory) > 0
        /\ assessmentHistory[1] = serverHistory[1]
        /\ currentAssessment = serverHistory[1].prediction

====
